---- MODULE Spec2Model ----
(***************************************************************************)
(* Model of the card page served by src/app.py: the catalog `topics`, the  *)
(* search box, the #cards container built by refresh/buildCards, the       *)
(* per-card example toggle and the copy buttons with their clipboard       *)
(* promises and revert timers; and of the Flask shell that serves it: the  *)
(* list TOPICS, the index route and the loading of its answer.             *)
(*                                                                         *)
(* Strings that the code inspects character by character (title, desc,     *)
(* cmd, example, the filter text) are sequences of one-character strings.  *)
(* A field that a topic literal does not carry is a field missing from     *)
(* the record, as in JavaScript.                                           *)
(***************************************************************************)
EXTENDS Integers, Sequences, FiniteSets, TLC

VARIABLES topics, loaded, search, container, innerText, writes, timers, hist,
          TOPICS, responses, script

vars == <<topics, loaded, search, container, innerText, writes, timers, hist,
          TOPICS, responses, script>>

(***************************************************************************)
(* Bounds of the model.                                                    *)
(***************************************************************************)
MaxTopics == 3      \* longest catalog of the view specification
MaxFilterLen == 3   \* longest filter text of the view specification
MaxCards == 2       \* longest catalog of the page specification
MaxOverlap == 2     \* copy actions in flight in the copy specification
MaxServed == 3      \* longest catalog of the serving specification
MaxRequests == 2    \* requests answered in the serving specification

(***************************************************************************)
(* Strings.                                                                *)
(***************************************************************************)
Chars == {"a", "A", "b", " "}

WhiteSpace == {" ", "\n"}

Min(S) == CHOOSE x \in S : \A y \in S : x <= y
Max(S) == CHOOSE x \in S : \A y \in S : y <= x

StringsUpTo(n) == UNION {[1..k -> Chars] : k \in 0..n}

toLowerCaseChar(c) == CASE c = "A" -> "a" [] c = "B" -> "b" [] OTHER -> c

toLowerCase(s) == [i \in 1..Len(s) |-> toLowerCaseChar(s[i])]

\* no trimming at all
trimNothing(s) == s

\* leading whitespace removed only (trimStart)
trimStartOnly(s) ==
  LET keep == {i \in 1..Len(s) : s[i] \notin WhiteSpace}
  IN  IF keep = {} THEN <<>> ELSE SubSeq(s, Min(keep), Len(s))

trim(s) ==
  LET keep == {i \in 1..Len(s) : s[i] \notin WhiteSpace}
  IN  IF keep = {} THEN <<>> ELSE SubSeq(s, Min(keep), Max(keep))

includes(s, sub) ==
  \E i \in 0..(Len(s) - Len(sub)) : \A k \in 1..Len(sub) : s[i + k] = sub[k]

(***************************************************************************)
(* Topics.  TopicPool samples the shapes a topic literal can take: with    *)
(* and without desc/cmd/example, category and score, upper and lower case, *)
(* text with inner spaces and newlines, equal, zero and negative scores.   *)
(***************************************************************************)
TopicPool ==
  { [id |-> "init", title |-> <<"a">>, desc |-> <<"b">>, cmd |-> <<"a">>,
     example |-> <<"a", "\n", "b">>, category |-> "X", score |-> 1],
    [id |-> "plan", title |-> <<"A", "b">>, category |-> "Y", score |-> 2],
    [id |-> "apply", title |-> <<"b">>, cmd |-> <<"B">>, category |-> "X"],
    [id |-> "fmt", title |-> <<"b", "a">>, example |-> <<"B">>, score |-> 0],
    [id |-> "show", title |-> <<"B">>, desc |-> <<"a", " ", "b">>,
     category |-> "Y", score |-> -1],
    [id |-> "validate", title |-> <<"a">>, cmd |-> <<"a">>, category |-> "",
     score |-> 1] }

PagePool == {t \in TopicPool : t.id \in {"init", "apply"}}

SeqsUpTo(S, n) == UNION {[1..k -> S] : k \in 0..n}

\* three topics of one category whose scores are not in catalog order
BasicCatalog ==
  << [id |-> "init", title |-> <<"a">>, cmd |-> <<"a">>, category |-> "Basic", score |-> 90],
     [id |-> "plan", title |-> <<"b">>, cmd |-> <<"b">>, category |-> "Basic", score |-> 95],
     [id |-> "apply", title |-> <<"a", "b">>, cmd |-> <<"a">>, category |-> "Basic", score |-> 85] >>

Catalogs == SeqsUpTo(TopicPool, MaxTopics) \cup {BasicCatalog}

PageCatalogs == SeqsUpTo(PagePool, MaxCards) \ {<<>>}

Filters == StringsUpTo(MaxFilterLen)

\* typed into the search box of the page specification: nothing, a text that
\* drops a topic of PagePool, and blanks
PageFilters == {<<>>, <<"a">>, <<" ">>}

\* t.desc || '', t.cmd || '', t.example || ''
desc(t) == IF "desc" \in DOMAIN t THEN t.desc ELSE <<>>
cmd(t) == IF "cmd" \in DOMAIN t THEN t.cmd ELSE <<>>
example(t) == IF "example" \in DOMAIN t THEN t.example ELSE <<>>

\* t.category, "" when the topic has none (both are falsy in the code's test)
category(t) == IF "category" \in DOMAIN t THEN t.category ELSE ""

\* a missing score counted as a high one
scoreMissingHigh(t) == IF "score" \in DOMAIN t /\ t.score # 0 THEN t.score ELSE 100

\* b.score || 0
score(t) == IF "score" \in DOMAIN t /\ t.score # 0 THEN t.score ELSE 0

(***************************************************************************)
(* refresh: filter, then sort the filtered copy.  The view model is a      *)
(* sequence of references into topics (indices), as the filtered array     *)
(* holds the topic objects themselves.                                     *)
(***************************************************************************)
\* the match target without toLowerCase
combinedCaseSensitive(t) ==
  t.title \o <<" ">> \o desc(t) \o <<" ">> \o cmd(t) \o <<" ">> \o example(t)

\* the fields run together without the spaces between them
combinedNoSpaces(t) ==
  toLowerCase(t.title \o desc(t) \o cmd(t) \o example(t))

combined(t) ==
  toLowerCase(t.title \o <<" ">> \o desc(t) \o <<" ">> \o cmd(t) \o <<" ">> \o example(t))

matches(t, ft) ==
  IF ft = <<>> THEN TRUE ELSE \E c \in {combined(t)} : includes(c, ft)

filter(tp, ft) ==
  SelectSeq([i \in 1..Len(tp) |-> i], LAMBDA i : matches(tp[i], ft))

\* the comparator with its operands swapped
compareAscending(a, b) == score(a) - score(b)

compare(a, b) == score(b) - score(a)

\* the sort call left out
sortNothing(tp, refs) == refs

\* Array.prototype.sort with a comparator is a stable sort: x goes before y
\* when it compares smaller, or compares equal and stood before y.
sort(tp, refs) ==
  LET n == Len(refs)
      before(i, j) ==
        \/ compare(tp[refs[i]], tp[refs[j]]) < 0
        \/ compare(tp[refs[i]], tp[refs[j]]) = 0 /\ i < j
      rank(i) == Cardinality({j \in 1..n : before(j, i)}) + 1
  IN  [k \in 1..n |-> refs[CHOOSE i \in 1..n : rank(i) = k]]

\* the array handed to buildCards (each intermediate value is fixed once)
filtered(tp, filterText) ==
  CHOOSE v \in {sort(tp, refs) :
                  refs \in {filter(tp, ft) : ft \in {toLowerCase(trim(filterText))}}} : TRUE

\* the catalog itself sorted
topicsSortedInPlace(tp, filterText) ==
  [k \in 1..Len(tp) |-> tp[sort(tp, [i \in 1..Len(tp) |-> i])[k]]]

\* topics after refresh: filter() returns a new array and sort() reorders
\* that array, so the catalog keeps its order.
topicsAfterRefresh(tp, filterText) == tp

(***************************************************************************)
(* buildCards.  A copy button is named by the render that made it and its  *)
(* position in the view model; `epoch` is a render number no button still  *)
(* referenced by a pending promise or timer uses.                          *)
(***************************************************************************)
sectionHeader(c) == [kind |-> "header", pill |-> c]

hasCode(t) == cmd(t) # <<>> \/ example(t) # <<>>

\* the command and the example run together
codeTextNoNewline(t) == cmd(t) \o example(t)

codeText(t) ==
  (IF cmd(t) # <<>> THEN cmd(t) \o <<"\n">> ELSE <<>>) \o example(t)

hasBadge(t) == "score" \in DOMAIN t /\ t.score # 0

\* a card built with its example open
commandCardExpanded(t, ref, btn) ==
  IF hasCode(t)
  THEN [kind |-> "card", t |-> ref, display |-> "block",
        toggle |-> "Hide example", badge |-> hasBadge(t),
        code |-> codeText(t), copyBtn |-> btn]
  ELSE [kind |-> "card", t |-> ref, display |-> "block",
        toggle |-> "Hide example", badge |-> hasBadge(t)]

commandCard(t, ref, btn) ==
  LET base == [kind |-> "card", t |-> ref, display |-> "none",
               toggle |-> "Show example", badge |-> hasBadge(t)]
  IN  IF hasCode(t)
      THEN [kind |-> "card", t |-> ref, display |-> "none",
            toggle |-> "Show example", badge |-> hasBadge(t),
            code |-> codeText(t), copyBtn |-> btn]
      ELSE base

\* the old children left in place
innerHTMLKept(children) == children

\* container.innerHTML = ''
innerHTMLCleared(children) == <<>>

\* a header before every card that has a category
needsHeaderAlways(c, seenCategories) == c # ""

\* t.category && !seenCategories.has(t.category)
needsHeader(c, seenCategories) == c # "" /\ c \notin seenCategories

\* filtered.forEach: for each topic of the view model in order, the header
\* of its category when that category was not seen before, then its card.
\* seenCategories at position idx holds the categories of the positions
\* before it; hs are the positions that get a header, and the child at
\* place p belongs to the position i whose header and card cover p.
forEach(tp, view, epoch, seenCategories, children) ==
  LET n == Len(view)
      seenAt(idx) == seenCategories \cup ({category(tp[view[j]]) : j \in 1..(idx - 1)} \ {""})
      before(i, hs) == (i - 1) + Cardinality({j \in hs : j < i})
      width(i, hs) == IF i \in hs THEN 2 ELSE 1
      child(p, hs) ==
        LET i == CHOOSE k \in 1..n : before(k, hs) < p /\ p <= before(k, hs) + width(k, hs)
        IN  IF i \in hs /\ p = before(i, hs) + 1
            THEN sectionHeader(category(tp[view[i]]))
            ELSE commandCard(tp[view[i]], view[i], <<epoch, i>>)
  IN  CHOOSE out \in
        { children \o [p \in 1..(n + Cardinality(hs)) |-> child(p, hs)] :
            hs \in {{idx \in 1..n : needsHeader(category(tp[view[idx]]), seenAt(idx))}} } : TRUE

buildCards(children, tp, view, epoch) ==
  forEach(tp, view, epoch, {}, innerHTMLCleared(children))

\* what refresh(filterText) puts into an empty container
rendered(tp, filterText, epoch) ==
  CHOOSE c \in {buildCards(<<>>, tp, v, epoch) : v \in {filtered(tp, filterText)}} : TRUE

(***************************************************************************)
(* The page.  writes are the clipboard promises not yet settled, timers    *)
(* the armed setTimeout callbacks in firing order (all have the same       *)
(* delay).  innerText holds the label of every copy button that is in the  *)
(* container or that a promise or timer still references; a button nothing *)
(* references any more is garbage.  A timer also records the label its    *)
(* button showed when the promise settled (prior).  hist remembers, while  *)
(* the last events were one or two clicks on the toggle of one card, the   *)
(* page before them, and after a click on reset the filter text and        *)
(* whether an example was open when it was clicked.                        *)
(***************************************************************************)
\* hist is kept only where a specification starts it
noted(h) == IF hist.ev = "off" THEN hist ELSE h

page == [container |-> container, innerText |-> innerText, search |-> search]

Range(s) == {s[i] : i \in 1..Len(s)}

referenced(w, tm) == {x.btn : x \in Range(w)} \cup {x.btn : x \in Range(tm)}

buttons(children) ==
  {children[i].copyBtn : i \in {j \in 1..Len(children) : "copyBtn" \in DOMAIN children[j]}}

freeEpoch(w, tm) ==
  Min({e \in 0..(Len(w) + Len(tm)) : \A b \in referenced(w, tm) : b[1] # e})

\* the labels of the buttons still reachable
collect(text, children, w, tm) ==
  [b \in (buttons(children) \cup referenced(w, tm)) \cap DOMAIN text |-> text[b]]

RemoveAt(s, k) == SubSeq(s, 1, k - 1) \o SubSeq(s, k + 1, Len(s))

\* (the \E over singleton sets fix each value once for the step)
refresh(filterText) ==
  \E epoch \in {freeEpoch(writes, timers)} :
  \E view \in {filtered(topics, filterText)} :
  \E children \in {buildCards(container, topics, view, epoch)} :
  \E made \in {{<<epoch, i>> : i \in 1..Len(view)} \cap buttons(children)} :
  \E kept \in {collect(innerText, children, writes, timers)} :
    /\ topics' = topicsAfterRefresh(topics, filterText)
    /\ container' = children
    /\ innerText' = [b \in made \cup DOMAIN kept |->
                       IF b \in made THEN "Copy" ELSE kept[b]]

(***************************************************************************)
(* The Flask shell.  TOPICS is the module-level list, responses the pages  *)
(* the index route has answered with.  json.dumps is modelled by what it   *)
(* does to the values: a string becomes a JSON string whose characters are *)
(* escaped one by one, a number a JSON number; the brackets, commas and    *)
(* key order of the text carry no information beyond the list and its      *)
(* dicts.  A symbol of a text is one character or a run of characters     *)
(* none of which json.dumps escapes, such as "</script>".  No identifier   *)
(* and no category holds a character that json.dumps escapes.              *)
(***************************************************************************)
ServePool ==
  { [id |-> "init", title |-> <<"a">>, cmd |-> <<"a", "\"", "b", "\"">>,
     example |-> <<"a", "\n", "b">>, category |-> "X"],
    [id |-> "plan", title |-> <<"A", "\\">>, desc |-> <<"b">>, category |-> "Y",
     score |-> 2],
    [id |-> "tag", title |-> <<"b">>, desc |-> <<"a", "</script>">>, category |-> "X"] }

\* a catalog in which a pasted entry kept the identifier of its original
ShippedTopicsPasted ==
  << [id |-> "init", title |-> <<"a">>, category |-> "X"],
     [id |-> "plan", title |-> <<"b">>, category |-> "X"],
     [id |-> "init", title |-> <<"a">>, cmd |-> <<"b">>, category |-> "X"] >>

\* TOPICS as shipped.  Each text is cut into its runs of characters that
\* json.dumps leaves alone and the single characters it escapes.
ShippedTopics ==
  <<
    [ id |-> "init",
      title |-> <<"terraform init">>,
      desc |-> <<"Initialize a new or existing Terraform working directory: downloads providers, initializes backends and modules.">>,
      cmd |-> <<"terraform init">>,
      example |-> <<"terraform init", "\n", "# Reconfigure backend", "\n", "terraform init -reconfigure -backend-config=", "\"", "bucket=my-bucket", "\"">>,
      tf_link |-> <<"https://developer.hashicorp.com/terraform/cli/commands/init">>,
      category |-> "Basic Terraform Commands" ],
    [ id |-> "plan",
      title |-> <<"terraform plan">>,
      desc |-> <<"Generate and show an execution plan (what Terraform will change).">>,
      cmd |-> <<"terraform plan -out=plan.tfplan">>,
      example |-> <<"terraform plan -out=plan.tfplan", "\n", "terraform plan -detailed-exitcode">>,
      tf_link |-> <<"https://developer.hashicorp.com/terraform/cli/commands/plan">>,
      category |-> "Basic Terraform Commands" ],
    [ id |-> "apply",
      title |-> <<"terraform apply">>,
      desc |-> <<"Build or change infrastructure as described by the plan or configuration.">>,
      cmd |-> <<"terraform apply plan.tfplan">>,
      example |-> <<"terraform apply plan.tfplan", "\n", "# non-interactive", "\n", "terraform apply -auto-approve">>,
      tf_link |-> <<"https://developer.hashicorp.com/terraform/cli/commands/apply">>,
      category |-> "Basic Terraform Commands" ],
    [ id |-> "destroy",
      title |-> <<"terraform destroy">>,
      desc |-> <<"Destroy Terraform-managed infrastructure for the current configuration.">>,
      cmd |-> <<"terraform destroy">>,
      example |-> <<"terraform destroy -auto-approve", "\n", "# target a single resource", "\n", "terraform destroy -target=aws_instance.example">>,
      tf_link |-> <<"https://developer.hashicorp.com/terraform/cli/commands/destroy">>,
      category |-> "Basic Terraform Commands" ],
    [ id |-> "fmt",
      title |-> <<"terraform fmt">>,
      desc |-> <<"Format Terraform configuration files to canonical HCL style.">>,
      cmd |-> <<"terraform fmt -recursive">>,
      example |-> <<"terraform fmt -check -recursive">>,
      tf_link |-> <<"https://developer.hashicorp.com/terraform/cli/commands/fmt">>,
      category |-> "Basic Terraform Commands" ],
    [ id |-> "validate",
      title |-> <<"terraform validate">>,
      desc |-> <<"Validate configuration syntax and basic semantic rules without contacting remote systems.">>,
      cmd |-> <<"terraform validate">>,
      example |-> <<"terraform validate", "\n", "terraform validate -json > validate.json">>,
      tf_link |-> <<"https://developer.hashicorp.com/terraform/cli/commands/validate">>,
      category |-> "Basic Terraform Commands" ],
    [ id |-> "output",
      title |-> <<"terraform output">>,
      desc |-> <<"Read outputs from the state or a saved plan; supports machine-readable JSON.">>,
      cmd |-> <<"terraform output instance_ip">>,
      example |-> <<"terraform output -json > outputs.json">>,
      tf_link |-> <<"https://developer.hashicorp.com/terraform/cli/commands/output">>,
      category |-> "Basic Terraform Commands" ],
    [ id |-> "show",
      title |-> <<"terraform show">>,
      desc |-> <<"Produce human-readable or JSON representation of state or plan files.">>,
      cmd |-> <<"terraform show plan.tfplan">>,
      example |-> <<"terraform show -json plan.tfplan > plan.json">>,
      tf_link |-> <<"https://developer.hashicorp.com/terraform/cli/commands/show">>,
      category |-> "Basic Terraform Commands" ],
    [ id |-> "version",
      title |-> <<"terraform version">>,
      desc |-> <<"Display the Terraform and plugin versions in use.">>,
      cmd |-> <<"terraform version">>,
      example |-> <<"terraform version">>,
      tf_link |-> <<"https://developer.hashicorp.com/terraform/cli/commands/version">>,
      category |-> "Basic Terraform Commands" ],
    [ id |-> "providers",
      title |-> <<"terraform providers">>,
      desc |-> <<"List providers required by the configuration and show provider dependency graph.">>,
      cmd |-> <<"terraform providers">>,
      example |-> <<"terraform providers", "\n", "terraform providers | sed -n '1,50p'">>,
      tf_link |-> <<"https://developer.hashicorp.com/terraform/cli/commands/providers">>,
      category |-> "Basic Terraform Commands" ],
    [ id |-> "state_list",
      title |-> <<"terraform state list">>,
      desc |-> <<"List all resources recorded in the Terraform state.">>,
      cmd |-> <<"terraform state list">>,
      example |-> <<"terraform state list">>,
      tf_link |-> <<"https://developer.hashicorp.com/terraform/cli/state">>,
      category |-> "Terraform State Management" ],
    [ id |-> "state_show",
      title |-> <<"terraform state show">>,
      desc |-> <<"Show attributes for a single resource from the state.">>,
      cmd |-> <<"terraform state show aws_instance.example">>,
      example |-> <<"terraform state show module.db.aws_db_instance.example">>,
      tf_link |-> <<"https://developer.hashicorp.com/terraform/cli/state">>,
      category |-> "Terraform State Management" ],
    [ id |-> "state_pull",
      title |-> <<"terraform state pull">>,
      desc |-> <<"Download current state from the backend as JSON to stdout.">>,
      cmd |-> <<"terraform state pull">>,
      example |-> <<"terraform state pull > terraform.tfstate">>,
      tf_link |-> <<"https://developer.hashicorp.com/terraform/cli/state">>,
      category |-> "Terraform State Management" ],
    [ id |-> "state_push",
      title |-> <<"terraform state push">>,
      desc |-> <<"Upload a local state file to the remote backend (advanced/rare; use with caution).">>,
      cmd |-> <<"terraform state push terraform.tfstate">>,
      example |-> <<"terraform state push terraform.tfstate">>,
      tf_link |-> <<"https://developer.hashicorp.com/terraform/cli/state">>,
      category |-> "Terraform State Management" ],
    [ id |-> "state_rm",
      title |-> <<"terraform state rm">>,
      desc |-> <<"Remove a resource from the state without modifying real infrastructure.">>,
      cmd |-> <<"terraform state rm aws_instance.example">>,
      example |-> <<"terraform state rm module.old.aws_instance.example">>,
      tf_link |-> <<"https://developer.hashicorp.com/terraform/cli/state">>,
      category |-> "Terraform State Management" ],
    [ id |-> "state_mv",
      title |-> <<"terraform state mv">>,
      desc |-> <<"Move resources within the state (rename or move between modules).">>,
      cmd |-> <<"terraform state mv 'aws_instance.old[0]' 'aws_instance.new[0]'">>,
      example |-> <<"terraform state mv module.old.aws_instance.example module.new.aws_instance.example">>,
      tf_link |-> <<"https://developer.hashicorp.com/terraform/cli/state">>,
      category |-> "Terraform State Management" ],
    [ id |-> "state_replace_provider",
      title |-> <<"terraform state replace-provider">>,
      desc |-> <<"Replace provider references in the state when changing provider addresses.">>,
      cmd |-> <<"terraform state replace-provider registry.terraform.io/hashicorp/aws registry.terraform.io/custom/myaws">>,
      example |-> <<"terraform state replace-provider old_provider new_provider">>,
      tf_link |-> <<"https://developer.hashicorp.com/terraform/cli/state">>,
      category |-> "Terraform State Management" ],
    [ id |-> "refresh",
      title |-> <<"terraform refresh">>,
      desc |-> <<"Update local state to match real-world infrastructure (deprecated; plan/refresh flags preferred).">>,
      cmd |-> <<"terraform refresh">>,
      example |-> <<"terraform refresh", "\n", "# or use plan with -refresh=true/false">>,
      tf_link |-> <<"https://developer.hashicorp.com/terraform/cli/commands/plan">>,
      category |-> "Terraform State Management" ],
    [ id |-> "workspace_list",
      title |-> <<"terraform workspace list">>,
      desc |-> <<"List all named workspaces for the current configuration.">>,
      cmd |-> <<"terraform workspace list">>,
      example |-> <<"terraform workspace list">>,
      tf_link |-> <<"https://developer.hashicorp.com/terraform/cli/commands/workspace">>,
      category |-> "Terraform Workspaces" ],
    [ id |-> "workspace_new",
      title |-> <<"terraform workspace new">>,
      desc |-> <<"Create a new named workspace (separate state instance).">>,
      cmd |-> <<"terraform workspace new dev">>,
      example |-> <<"terraform workspace new staging">>,
      tf_link |-> <<"https://developer.hashicorp.com/terraform/cli/commands/workspace">>,
      category |-> "Terraform Workspaces" ],
    [ id |-> "workspace_select",
      title |-> <<"terraform workspace select">>,
      desc |-> <<"Switch to an existing workspace to use its state.">>,
      cmd |-> <<"terraform workspace select prod">>,
      example |-> <<"terraform workspace select staging">>,
      tf_link |-> <<"https://developer.hashicorp.com/terraform/cli/commands/workspace">>,
      category |-> "Terraform Workspaces" ],
    [ id |-> "workspace_delete",
      title |-> <<"terraform workspace delete">>,
      desc |-> <<"Delete a workspace and its state (use with caution).">>,
      cmd |-> <<"terraform workspace delete old-env">>,
      example |-> <<"terraform workspace delete staging">>,
      tf_link |-> <<"https://developer.hashicorp.com/terraform/cli/commands/workspace">>,
      category |-> "Terraform Workspaces" ],
    [ id |-> "workspace_show",
      title |-> <<"terraform workspace show">>,
      desc |-> <<"Display the current workspace name.">>,
      cmd |-> <<"terraform workspace show">>,
      example |-> <<"terraform workspace show">>,
      tf_link |-> <<"https://developer.hashicorp.com/terraform/cli/commands/workspace">>,
      category |-> "Terraform Workspaces" ],
    [ id |-> "import_resource",
      title |-> <<"terraform import">>,
      desc |-> <<"Import existing infrastructure into Terraform state; update configuration afterwards to match resource attributes.">>,
      cmd |-> <<"terraform import aws_instance.web i-0123456789abcdef0">>,
      example |-> <<"terraform import module.db.aws_db_instance.example rds-123456">>,
      tf_link |-> <<"https://developer.hashicorp.com/terraform/cli/commands/import">>,
      category |-> "Terraform Import" ],
    [ id |-> "graph",
      title |-> <<"terraform graph">>,
      desc |-> <<"Output dependency graph in DOT format; pipe to Graphviz to render images.">>,
      cmd |-> <<"terraform graph | dot -Tpng > graph.png">>,
      example |-> <<"terraform graph | dot -Tsvg > graph.svg">>,
      tf_link |-> <<"https://developer.hashicorp.com/terraform/cli/commands/graph">>,
      category |-> "Graph & Visualization" ],
    [ id |-> "apply_auto_approve",
      title |-> <<"terraform apply -auto-approve">>,
      desc |-> <<"Apply without interactive confirmation (use with caution in automation).">>,
      cmd |-> <<"terraform apply -auto-approve">>,
      example |-> <<"terraform apply -auto-approve">>,
      tf_link |-> <<"https://developer.hashicorp.com/terraform/cli/commands/apply">>,
      category |-> "Plan & Apply Options" ],
    [ id |-> "apply_var",
      title |-> <<"terraform apply -var">>,
      desc |-> <<"Pass a single variable override on the CLI during apply.">>,
      cmd |-> <<"terraform apply -var='key=value'">>,
      example |-> <<"terraform apply -var='region=eu-west-1' -auto-approve">>,
      tf_link |-> <<"https://developer.hashicorp.com/terraform/language/values/variables#passing-values-on-the-command-line">>,
      category |-> "Plan & Apply Options" ],
    [ id |-> "apply_target",
      title |-> <<"terraform apply -target">>,
      desc |-> <<"Apply changes targeting a specific resource (advanced; use carefully).">>,
      cmd |-> <<"terraform apply -target=aws_instance.example">>,
      example |-> <<"terraform apply -target=module.db.aws_db_instance.example">>,
      tf_link |-> <<"https://developer.hashicorp.com/terraform/cli/commands/apply">>,
      category |-> "Plan & Apply Options" ],
    [ id |-> "apply_planfile",
      title |-> <<"terraform apply <plan_file>">>,
      desc |-> <<"Apply a previously saved plan file to perform the planned changes.">>,
      cmd |-> <<"terraform apply plan.tfplan">>,
      example |-> <<"terraform plan -out=plan.tfplan", "\n", "terraform apply plan.tfplan">>,
      tf_link |-> <<"https://developer.hashicorp.com/terraform/cli/commands/apply">>,
      category |-> "Plan & Apply Options" ],
    [ id |-> "plan_out",
      title |-> <<"terraform plan -out">>,
      desc |-> <<"Save the execution plan to a file for later application or inspection.">>,
      cmd |-> <<"terraform plan -out=plan.tfplan">>,
      example |-> <<"terraform plan -out=ci.plan", "\n", "terraform show -json ci.plan > ci-plan.json">>,
      tf_link |-> <<"https://developer.hashicorp.com/terraform/cli/commands/plan">>,
      category |-> "Plan & Apply Options" ],
    [ id |-> "plan_var",
      title |-> <<"terraform plan -var">>,
      desc |-> <<"Provide a one-off variable override on the CLI when generating a plan.">>,
      cmd |-> <<"terraform plan -var='key=value'">>,
      example |-> <<"terraform plan -var='env=staging' -out=plan.tfplan">>,
      tf_link |-> <<"https://developer.hashicorp.com/terraform/language/values/variables#passing-values-on-the-command-line">>,
      category |-> "Plan & Apply Options" ],
    [ id |-> "plan_target",
      title |-> <<"terraform plan -target">>,
      desc |-> <<"Generate a plan targeting specific resources to limit change scope.">>,
      cmd |-> <<"terraform plan -target=aws_instance.example">>,
      example |-> <<"terraform plan -target=module.db -out=target-plan.tfplan">>,
      tf_link |-> <<"https://developer.hashicorp.com/terraform/cli/commands/plan">>,
      category |-> "Plan & Apply Options" ],
    [ id |-> "plan_destroy",
      title |-> <<"terraform plan -destroy">>,
      desc |-> <<"Show a plan that would destroy all resources managed by the configuration.">>,
      cmd |-> <<"terraform plan -destroy">>,
      example |-> <<"terraform plan -destroy -out=destroy.tfplan">>,
      tf_link |-> <<"https://developer.hashicorp.com/terraform/cli/commands/plan">>,
      category |-> "Plan & Apply Options" ],
    [ id |-> "plan_refresh_false",
      title |-> <<"terraform plan -refresh=false">>,
      desc |-> <<"Skip refreshing the state from real infrastructure when generating the plan (faster but may be stale).">>,
      cmd |-> <<"terraform plan -refresh=false">>,
      example |-> <<"terraform plan -refresh=false -out=plan.tfplan">>,
      tf_link |-> <<"https://developer.hashicorp.com/terraform/cli/commands/plan">>,
      category |-> "Plan & Apply Options" ],
    [ id |-> "apply_refresh_only",
      title |-> <<"terraform apply -refresh-only">>,
      desc |-> <<"Update the state to match real infrastructure without changing any resources.">>,
      cmd |-> <<"terraform apply -refresh-only">>,
      example |-> <<"terraform apply -refresh-only -auto-approve">>,
      tf_link |-> <<"https://developer.hashicorp.com/terraform/cli/commands/apply">>,
      category |-> "Plan & Apply Options" ],
    [ id |-> "apply_var_file",
      title |-> <<"terraform apply -var-file=<file.tfvars>">>,
      desc |-> <<"Load variables from a .tfvars file during apply to provide consistent input values.">>,
      cmd |-> <<"terraform apply -var-file=prod.tfvars">>,
      example |-> <<"terraform apply -var-file=prod.tfvars -auto-approve">>,
      tf_link |-> <<"https://developer.hashicorp.com/terraform/language/values/variables#variable-definitions-tfvars-files">>,
      category |-> "Variable Management (explicit cards per request)" ],
    [ id |-> "plan_var_file",
      title |-> <<"terraform plan -var-file=<file.tfvars>">>,
      desc |-> <<"Create a plan using variables sourced from a .tfvars file.">>,
      cmd |-> <<"terraform plan -var-file=prod.tfvars -out=plan.tfplan">>,
      example |-> <<"terraform plan -var-file=staging.tfvars -out=plan.tfplan">>,
      tf_link |-> <<"https://developer.hashicorp.com/terraform/cli/commands/plan">>,
      category |-> "Variable Management (explicit cards per request)" ],
    [ id |-> "apply_var_cli",
      title |-> <<"terraform apply -var=", "\"", "key=value", "\"">>,
      desc |-> <<"Apply with an immediate single variable override from the CLI.">>,
      cmd |-> <<"terraform apply -var='image=ami-12345' -auto-approve">>,
      example |-> <<"terraform apply -var='region=eu-west-1' -auto-approve">>,
      tf_link |-> <<"https://developer.hashicorp.com/terraform/language/values/variables#passing-values-on-the-command-line">>,
      category |-> "Variable Management (explicit cards per request)" ],
    [ id |-> "plan_var_cli",
      title |-> <<"terraform plan -var=", "\"", "key=value", "\"">>,
      desc |-> <<"Plan using a single CLI-provided variable override.">>,
      cmd |-> <<"terraform plan -var='image=ami-12345' -out=plan.tfplan">>,
      example |-> <<"terraform plan -var='env=dev' -out=plan.tfplan">>,
      tf_link |-> <<"https://developer.hashicorp.com/terraform/language/values/variables#passing-values-on-the-command-line">>,
      category |-> "Variable Management (explicit cards per request)" ],
    [ id |-> "apply_lock_false",
      title |-> <<"terraform apply -lock=false">>,
      desc |-> <<"Disable state locking for this apply (dangerous for remote backends; use cautiously).">>,
      cmd |-> <<"terraform apply -lock=false -auto-approve">>,
      example |-> <<"terraform apply -lock=false -auto-approve">>,
      tf_link |-> <<"https://developer.hashicorp.com/terraform/cli/commands/apply">>,
      category |-> "Variable Management (explicit cards per request)" ],
    [ id |-> "plan_input_false",
      title |-> <<"terraform plan -input=false">>,
      desc |-> <<"Run plan non-interactively by disabling prompts for missing input; useful in CI.">>,
      cmd |-> <<"terraform plan -input=false -var-file=ci.tfvars">>,
      example |-> <<"terraform plan -input=false -var-file=secrets.tfvars -out=plan.tfplan">>,
      tf_link |-> <<"https://developer.hashicorp.com/terraform/cli/commands/plan">>,
      category |-> "Variable Management (explicit cards per request)" ],
    [ id |-> "taint_cmd",
      title |-> <<"terraform taint <resource>">>,
      desc |-> <<"Mark a resource in the state to be recreated on the next apply.">>,
      cmd |-> <<"terraform taint aws_instance.example">>,
      example |-> <<"terraform taint aws_instance.old">>,
      tf_link |-> <<"https://developer.hashicorp.com/terraform/cli/commands/taint">>,
      category |-> "Resource Taint & Untaint" ],
    [ id |-> "untaint_cmd",
      title |-> <<"terraform untaint <resource>">>,
      desc |-> <<"Remove a taint mark so the resource will not be recreated.">>,
      cmd |-> <<"terraform untaint aws_instance.example">>,
      example |-> <<"terraform untaint aws_instance.old">>,
      tf_link |-> <<"https://developer.hashicorp.com/terraform/cli/commands/taint">>,
      category |-> "Resource Taint & Untaint" ],
    [ id |-> "remote_config",
      title |-> <<"terraform remote config">>,
      desc |-> <<"Configure remote state storage (legacy command in older versions; use backend blocks with init).">>,
      cmd |-> <<"terraform remote config">>,
      example |-> <<"# Prefer backend block + terraform init", "\n", "terraform init -backend-config=", "\"", "bucket=my-bucket", "\"">>,
      tf_link |-> <<"https://developer.hashicorp.com/terraform/language/state/overview">>,
      category |-> "Remote State Management" ],
    [ id |-> "backend_config",
      title |-> <<"terraform init -backend-config">>,
      desc |-> <<"Specify backend configuration values at init time or reconfigure existing backend.">>,
      cmd |-> <<"terraform init -backend-config=backend.tf">>,
      example |-> <<"terraform init -backend-config=", "\"", "bucket=my-bucket", "\"", " -reconfigure">>,
      tf_link |-> <<"https://developer.hashicorp.com/terraform/language/state/overview">>,
      category |-> "Remote State Management" ],
    [ id |-> "state_push_remote",
      title |-> <<"terraform state push (remote)">>,
      desc |-> <<"Upload a local state file to the configured backend (advanced; be cautious).">>,
      cmd |-> <<"terraform state push terraform.tfstate">>,
      example |-> <<"terraform state push terraform.tfstate">>,
      tf_link |-> <<"https://developer.hashicorp.com/terraform/cli/state">>,
      category |-> "Remote State Management" ],
    [ id |-> "state_pull_remote",
      title |-> <<"terraform state pull (remote)">>,
      desc |-> <<"Download current remote state from the backend.">>,
      cmd |-> <<"terraform state pull > current.tfstate">>,
      example |-> <<"terraform state pull > backup-2025-10-22.tfstate">>,
      tf_link |-> <<"https://developer.hashicorp.com/terraform/cli/state">>,
      category |-> "Remote State Management" ],
    [ id |-> "providers_schema",
      title |-> <<"terraform providers schema">>,
      desc |-> <<"Show provider schema to inspect resource and data source attributes (JSON output available).">>,
      cmd |-> <<"terraform providers schema -json">>,
      example |-> <<"terraform providers schema -json > providers-schema.json">>,
      tf_link |-> <<"https://developer.hashicorp.com/terraform/cli/commands/providers">>,
      category |-> "Provider Management" ],
    [ id |-> "providers_lock",
      title |-> <<"terraform providers lock">>,
      desc |-> <<"Generate a dependency lock file for providers to ensure reproducible installs.">>,
      cmd |-> <<"terraform providers lock -platform=linux_amd64">>,
      example |-> <<"terraform providers lock -platform=linux_amd64">>,
      tf_link |-> <<"https://developer.hashicorp.com/terraform/cli/commands/providers">>,
      category |-> "Provider Management" ],
    [ id |-> "providers_mirror",
      title |-> <<"terraform providers mirror">>,
      desc |-> <<"Mirror provider plugins to a directory for air-gapped installs.">>,
      cmd |-> <<"terraform providers mirror ./vendor">>,
      example |-> <<"terraform providers mirror ./vendor">>,
      tf_link |-> <<"https://developer.hashicorp.com/terraform/cli/commands/providers">>,
      category |-> "Provider Management" ],
    [ id |-> "providers_install",
      title |-> <<"terraform providers install">>,
      desc |-> <<"Install providers locally (used by some workflows).">>,
      cmd |-> <<"terraform providers install">>,
      example |-> <<"terraform init && terraform providers install">>,
      tf_link |-> <<"https://developer.hashicorp.com/terraform/cli/commands/providers">>,
      category |-> "Provider Management" ],
    [ id |-> "init_upgrade",
      title |-> <<"terraform init -upgrade">>,
      desc |-> <<"Upgrade provider plugins to the newest allowed versions during init.">>,
      cmd |-> <<"terraform init -upgrade">>,
      example |-> <<"terraform init -upgrade">>,
      tf_link |-> <<"https://developer.hashicorp.com/terraform/cli/commands/init">>,
      category |-> "Provider Management" ],
    [ id |-> "force_unlock",
      title |-> <<"terraform force-unlock <lock-id>">>,
      desc |-> <<"Manually remove a stale lock on the state using the lock ID (use carefully).">>,
      cmd |-> <<"terraform force-unlock LOCK_ID">>,
      example |-> <<"terraform force-unlock 1234-abcd-5678">>,
      tf_link |-> <<"https://developer.hashicorp.com/terraform/cli/commands/force-unlock">>,
      category |-> "Locking and Unlocking" ],
    [ id |-> "apply_lock_timeout",
      title |-> <<"terraform apply -lock-timeout">>,
      desc |-> <<"Specify how long to wait when acquiring a state lock before failing.">>,
      cmd |-> <<"terraform apply -lock-timeout=5m -auto-approve">>,
      example |-> <<"terraform apply -lock-timeout=2m -auto-approve">>,
      tf_link |-> <<"https://developer.hashicorp.com/terraform/cli/commands/apply">>,
      category |-> "Locking and Unlocking" ],
    [ id |-> "state_push_file",
      title |-> <<"terraform state push <file>">>,
      desc |-> <<"Push a local state file to the remote backend (advanced restore or migration step).">>,
      cmd |-> <<"terraform state push backup.tfstate">>,
      example |-> <<"terraform state push backup.tfstate">>,
      tf_link |-> <<"https://developer.hashicorp.com/terraform/cli/state">>,
      category |-> "State Manipulation & Backups" ],
    [ id |-> "state_pull_file",
      title |-> <<"terraform state pull > file.tfstate">>,
      desc |-> <<"Pull the current state and save it locally for backup or inspection.">>,
      cmd |-> <<"terraform state pull > backup.tfstate">>,
      example |-> <<"terraform state pull > backup-2025-10-22.tfstate">>,
      tf_link |-> <<"https://developer.hashicorp.com/terraform/cli/state">>,
      category |-> "State Manipulation & Backups" ],
    [ id |-> "state_backup_restore",
      title |-> <<"State snapshot & restore">>,
      desc |-> <<"Create snapshots of state and restore from backups when needed.">>,
      cmd |-> <<"terraform state pull > snapshot.tfstate">>,
      example |-> <<"terraform state pull > snapshot.tfstate", "\n", "# restore: terraform state push snapshot.tfstate">>,
      tf_link |-> <<"https://developer.hashicorp.com/terraform/cli/state">>,
      category |-> "State Manipulation & Backups" ],
    [ id |-> "tf_log_debug",
      title |-> <<"TF_LOG=DEBUG">>,
      desc |-> <<"Enable debug-level logging to troubleshoot provider or plugin behavior.">>,
      cmd |-> <<"TF_LOG=DEBUG TF_LOG_PATH=./tf.log terraform plan">>,
      example |-> <<"TF_LOG=DEBUG TF_LOG_PATH=./tf.log terraform apply">>,
      tf_link |-> <<"https://developer.hashicorp.com/terraform/cli/commands/log">>,
      category |-> "Debugging & Logging" ],
    [ id |-> "tf_log_info",
      title |-> <<"TF_LOG=INFO">>,
      desc |-> <<"Enable info-level logging for less verbose runtime logs.">>,
      cmd |-> <<"TF_LOG=INFO terraform plan">>,
      example |-> <<"TF_LOG=INFO terraform plan">>,
      tf_link |-> <<"https://developer.hashicorp.com/terraform/cli/commands/log">>,
      category |-> "Debugging & Logging" ],
    [ id |-> "tf_log_path",
      title |-> <<"TF_LOG_PATH">>,
      desc |-> <<"Redirect Terraform logs to a file with TF_LOG_PATH.">>,
      cmd |-> <<"TF_LOG_PATH=./tf.log terraform apply">>,
      example |-> <<"TF_LOG=DEBUG TF_LOG_PATH=./tf.log terraform plan">>,
      tf_link |-> <<"https://developer.hashicorp.com/terraform/cli/commands/log">>,
      category |-> "Debugging & Logging" ],
    [ id |-> "validate_json",
      title |-> <<"terraform validate -json">>,
      desc |-> <<"Produce machine-readable JSON validation output for tooling and CI.">>,
      cmd |-> <<"terraform validate -json">>,
      example |-> <<"terraform validate -json > validate.json">>,
      tf_link |-> <<"https://developer.hashicorp.com/terraform/cli/commands/validate">>,
      category |-> "Debugging & Logging" ],
    [ id |-> "console",
      title |-> <<"terraform console">>,
      desc |-> <<"Interactive REPL to evaluate expressions against configuration and state.">>,
      cmd |-> <<"terraform console">>,
      example |-> <<"terraform console", "\n", "> var.count", "\n", "> module.vpc.subnet_ids">>,
      tf_link |-> <<"https://developer.hashicorp.com/terraform/cli/commands/console">>,
      category |-> "Debugging & Logging" ],
    [ id |-> "providers_schema_json",
      title |-> <<"terraform providers schema -json">>,
      desc |-> <<"Output provider schema in JSON to inspect resource/data attributes programmatically.">>,
      cmd |-> <<"terraform providers schema -json > schema.json">>,
      example |-> <<"terraform providers schema -json > providers-schema.json">>,
      tf_link |-> <<"https://developer.hashicorp.com/terraform/cli/commands/providers">>,
      category |-> "Debugging & Logging" ],
    [ id |-> "apply_replace",
      title |-> <<"terraform apply -replace">>,
      desc |-> <<"Force replacement of a specific resource during apply (selective recreate).">>,
      cmd |-> <<"terraform apply -replace='aws_instance.example' -auto-approve">>,
      example |-> <<"terraform apply -replace=aws_instance.example -auto-approve">>,
      tf_link |-> <<"https://developer.hashicorp.com/terraform/cli/commands/apply">>,
      category |-> "Experimental Commands" ],
    [ id |-> "plan_refresh_false_exp",
      title |-> <<"terraform plan -refresh=false (experimental)">>,
      desc |-> <<"Skip refresh before planning to speed up CI; may operate on stale data.">>,
      cmd |-> <<"terraform plan -refresh=false">>,
      example |-> <<"terraform plan -refresh=false -out=plan.tfplan">>,
      tf_link |-> <<"https://developer.hashicorp.com/terraform/cli/commands/plan">>,
      category |-> "Experimental Commands" ],
    [ id |-> "destroy_target",
      title |-> <<"terraform destroy -target">>,
      desc |-> <<"Destroy a specific resource by targeting it (advanced; use with caution).">>,
      cmd |-> <<"terraform destroy -target=aws_instance.example -auto-approve">>,
      example |-> <<"terraform destroy -target=module.db.aws_db_instance.example -auto-approve">>,
      tf_link |-> <<"https://developer.hashicorp.com/terraform/cli/commands/destroy">>,
      category |-> "Experimental Commands" ],
    [ id |-> "get",
      title |-> <<"terraform get">>,
      desc |-> <<"Download and update modules required by the configuration.">>,
      cmd |-> <<"terraform get -update">>,
      example |-> <<"terraform get && terraform get -update">>,
      tf_link |-> <<"https://developer.hashicorp.com/terraform/cli/commands/get">>,
      category |-> "Modules" ],
    [ id |-> "init_get_plugins",
      title |-> <<"terraform init -get-plugins">>,
      desc |-> <<"Download necessary provider plugins; modern init handles this automatically.">>,
      cmd |-> <<"terraform init -get-plugins">>,
      example |-> <<"terraform init -get-plugins">>,
      tf_link |-> <<"https://developer.hashicorp.com/terraform/cli/commands/init">>,
      category |-> "Modules" ],
    [ id |-> "state_snapshot",
      title |-> <<"terraform state snapshot">>,
      desc |-> <<"Create a snapshot/backup of the current state for recovery purposes.">>,
      cmd |-> <<"terraform state pull > snapshot.tfstate">>,
      example |-> <<"terraform state pull > snapshot-2025-10-22.tfstate">>,
      tf_link |-> <<"https://developer.hashicorp.com/terraform/cli/state">>,
      category |-> "Backups & Rollbacks" ],
    [ id |-> "state_restore",
      title |-> <<"terraform state restore">>,
      desc |-> <<"Restore state from a backup file by pushing it back to the backend (advanced).">>,
      cmd |-> <<"terraform state push snapshot.tfstate">>,
      example |-> <<"terraform state push snapshot.tfstate">>,
      tf_link |-> <<"https://developer.hashicorp.com/terraform/cli/state">>,
      category |-> "Backups & Rollbacks" ],
    [ id |-> "apply_backup_flag",
      title |-> <<"terraform apply -backup">>,
      desc |-> <<"Specify a backup file to write current state before applying changes (provider-specific workflows).">>,
      cmd |-> <<"terraform apply -backup=backup.tfstate">>,
      example |-> <<"terraform apply -backup=backup-2025-10-22.tfstate -auto-approve">>,
      tf_link |-> <<"https://developer.hashicorp.com/terraform/cli/commands/apply">>,
      category |-> "Backups & Rollbacks" ],
    [ id |-> "apply_auto_approve_repeat",
      title |-> <<"terraform apply -auto-approve">>,
      desc |-> <<"Run apply automatically without confirmation; commonly used in automation pipelines.">>,
      cmd |-> <<"terraform apply -auto-approve">>,
      example |-> <<"terraform apply -auto-approve">>,
      tf_link |-> <<"https://developer.hashicorp.com/terraform/cli/commands/apply">>,
      category |-> "Automation & Scripting" ],
    [ id |-> "plan_detailed_exitcode",
      title |-> <<"terraform plan -detailed-exitcode">>,
      desc |-> <<"Return exit codes that indicate whether a plan has changes (useful in CI to detect drift).">>,
      cmd |-> <<"terraform plan -detailed-exitcode">>,
      example |-> <<"terraform plan -detailed-exitcode || echo 'changes or error'">>,
      tf_link |-> <<"https://developer.hashicorp.com/terraform/cli/commands/plan">>,
      category |-> "Automation & Scripting" ],
    [ id |-> "apply_parallelism",
      title |-> <<"terraform apply -parallelism">>,
      desc |-> <<"Limit concurrency of resource operations during apply to control API load.">>,
      cmd |-> <<"terraform apply -parallelism=10 -auto-approve">>,
      example |-> <<"terraform apply -parallelism=5 -auto-approve">>,
      tf_link |-> <<"https://developer.hashicorp.com/terraform/cli/commands/apply">>,
      category |-> "Automation & Scripting" ],
    [ id |-> "login_logout",
      title |-> <<"terraform login / logout">>,
      desc |-> <<"Authenticate to Terraform Cloud/Enterprise and remove local credentials.">>,
      cmd |-> <<"terraform login">>,
      example |-> <<"terraform login", "\n", "terraform logout">>,
      tf_link |-> <<"https://developer.hashicorp.com/terraform/cli/commands/login">>,
      category |-> "Remote backend & collaboration" ],
    [ id |-> "init_backend_config",
      title |-> <<"terraform init -backend-config">>,
      desc |-> <<"Initialize backend with specific configuration values for remote state.">>,
      cmd |-> <<"terraform init -backend-config=backend.tf">>,
      example |-> <<"terraform init -backend-config=", "\"", "bucket=my-bucket", "\"", " -reconfigure">>,
      tf_link |-> <<"https://developer.hashicorp.com/terraform/language/state/overview">>,
      category |-> "Remote backend & collaboration" ],
    [ id |-> "init_force_copy",
      title |-> <<"terraform init -force-copy">>,
      desc |-> <<"Force copying of state data when reinitializing a backend (use carefully).">>,
      cmd |-> <<"terraform init -force-copy">>,
      example |-> <<"terraform init -force-copy -reconfigure -backend-config=", "\"", "bucket=my-bucket", "\"">>,
      tf_link |-> <<"https://developer.hashicorp.com/terraform/cli/commands/init">>,
      category |-> "Miscellaneous & tips" ],
    [ id |-> "plan_compact_warnings",
      title |-> <<"terraform plan -compact-warnings">>,
      desc |-> <<"Reduce verbosity of warnings in plan output for cleaner logs.">>,
      cmd |-> <<"terraform plan -compact-warnings -out=plan.tfplan">>,
      example |-> <<"terraform plan -compact-warnings -out=plan.tfplan">>,
      tf_link |-> <<"https://developer.hashicorp.com/terraform/cli/commands/plan">>,
      category |-> "Miscellaneous & tips" ],
    [ id |-> "fmt_recursive",
      title |-> <<"terraform fmt -recursive">>,
      desc |-> <<"Recursively format all .tf files under a directory.">>,
      cmd |-> <<"terraform fmt -recursive">>,
      example |-> <<"terraform fmt -recursive">>,
      tf_link |-> <<"https://developer.hashicorp.com/terraform/cli/commands/fmt">>,
      category |-> "Miscellaneous & tips" ],
    [ id |-> "force_unlock_misc",
      title |-> <<"terraform force-unlock">>,
      desc |-> <<"Manually unlock the state using the lock ID to recover from stuck locks.">>,
      cmd |-> <<"terraform force-unlock LOCK_ID">>,
      example |-> <<"terraform force-unlock 1234-abcd-5678">>,
      tf_link |-> <<"https://developer.hashicorp.com/terraform/cli/commands/force-unlock">>,
      category |-> "Miscellaneous & tips" ]
  >>

ServeCatalogs == SeqsUpTo(ServePool, MaxServed)

AtomKeys == {"id", "category"}

escapeChar(c) ==
  CASE c = "\"" -> "\\\""
    [] c = "\\" -> "\\\\"
    [] c = "\n" -> "\\n"
    [] OTHER -> c

escape(chars) == [i \in 1..Len(chars) |-> escapeChar(chars[i])]

\* one value of a topic dict as JSON
encode(k, v) ==
  IF k = "score" THEN [num |-> v]
  ELSE IF k \in AtomKeys THEN [str |-> <<v>>]
  ELSE [str |-> escape(v)]

\* only the first entry serialised
dumpsFirstOnly(T) ==
  [i \in 1..Min({1, Len(T)}) |-> [k \in DOMAIN T[i] |-> encode(k, T[i][k])]]

\* json.dumps(TOPICS)
dumps(T) == [i \in 1..Len(T) |-> [k \in DOMAIN T[i] |-> encode(k, T[i][k])]]

\* render_template_string(TEMPLATE, topics_json=topics_json): the payload is
\* put into the script element as it is ({{ topics_json | safe }})
render_template_string(topics_json) == [topics_json |-> topics_json]

\* the HTML parser ends the script element at the first end tag in its text
endsScript(topics_json) ==
  \E i \in 1..Len(topics_json) : \E k \in DOMAIN topics_json[i] :
     /\ "str" \in DOMAIN topics_json[i][k]
     /\ "</script>" \in Range(topics_json[i][k].str)

\* the character a JavaScript string literal gives for an escape sequence
unescapeChar(c) ==
  CASE c = "\\\"" -> "\""
    [] c = "\\\\" -> "\\"
    [] c = "\\n" -> "\n"
    [] OTHER -> c

\* the value of the array literal `const topics = ...`
decode(k, j) ==
  IF "num" \in DOMAIN j THEN j.num
  ELSE IF k \in AtomKeys THEN j.str[1]
  ELSE [i \in 1..Len(j.str) |-> unescapeChar(j.str[i])]

evaluate(topics_json) ==
  [i \in 1..Len(topics_json) |->
     [k \in DOMAIN topics_json[i] |-> decode(k, topics_json[i][k])]]

\* what the document shows about a script that did not run: the template has
\* no element, handler or catch for it
loadError == FALSE

Init ==
  /\ topics \in PageCatalogs
  /\ loaded = topics
  /\ search = <<>>
  /\ container = rendered(topics, <<>>, 0)
  /\ innerText = [b \in buttons(container) |-> "Copy"]
  /\ writes = <<>>
  /\ timers = <<>>
  /\ hist = [ev |-> "off"]
  /\ TOPICS = topics
  /\ responses = <<render_template_string(dumps(TOPICS))>>
  /\ script = "running"

InitView ==
  /\ topics \in Catalogs
  /\ loaded = topics
  /\ search = <<>>
  /\ container = rendered(topics, <<>>, 0)
  /\ innerText = [b \in buttons(container) |-> "Copy"]
  /\ writes = <<>>
  /\ timers = <<>>
  /\ hist = [ev |-> "load"]
  /\ TOPICS = topics
  /\ responses = <<render_template_string(dumps(TOPICS))>>
  /\ script = "running"

\* search 'input' listener
Input(f) ==
  /\ script = "running"
  /\ search' = f
  /\ refresh(f)
  /\ hist' = noted([ev |-> "other"])
  /\ UNCHANGED <<loaded, writes, timers, TOPICS, responses, script>>

\* a reset listener that empties the box and forgets to refresh
ResetWithoutRefresh ==
  /\ script = "running"
  /\ search' = <<>>
  /\ hist' = noted([ev |-> "reset", search |-> search,
                    expanded |-> \E k \in 1..Len(container) :
                                    container[k].kind = "card" /\ container[k].display = "block"])
  /\ UNCHANGED <<topics, container, innerText>>
  /\ UNCHANGED <<loaded, writes, timers, TOPICS, responses, script>>

\* reset 'click' listener (hist notes the filter text and whether an example
\* was open when the button was clicked)
Reset ==
  /\ script = "running"
  /\ search' = <<>>
  /\ refresh(<<>>)
  /\ hist' = noted([ev |-> "reset", search |-> search,
                    expanded |-> \E k \in 1..Len(container) :
                                    container[k].kind = "card" /\ container[k].display = "block"])
  /\ UNCHANGED <<loaded, writes, timers, TOPICS, responses, script>>

\* hiding the example without setting the label back
toggledKeepsLabel(c) ==
  IF c.display = "none"
  THEN [c EXCEPT !.display = "block", !.toggle = "Hide example"]
  ELSE [c EXCEPT !.display = "none"]

\* the two labels the wrong way round
toggledLabelsSwapped(c) ==
  IF c.display = "none"
  THEN [c EXCEPT !.display = "block", !.toggle = "Show example"]
  ELSE [c EXCEPT !.display = "none", !.toggle = "Hide example"]

toggled(c) ==
  IF c.display = "none"
  THEN [c EXCEPT !.display = "block", !.toggle = "Hide example"]
  ELSE [c EXCEPT !.display = "none", !.toggle = "Show example"]

\* one example wrapper shared by the listeners of all cards
afterToggleAll(children, i) ==
  [k \in 1..Len(children) |->
     IF children[k].kind = "card" THEN toggled(children[k]) ELSE children[k]]

\* the listener closes over the exampleWrapper and toggle of its own card
afterToggle(children, i) == [children EXCEPT ![i] = toggled(@)]

\* toggle 'click' listener of the card at position i of the container
Toggle(i) ==
  /\ container[i].kind = "card"
  /\ container' = afterToggle(container, i)
  /\ hist' = noted(IF hist.ev = "toggle" /\ hist.card = i /\ hist.n = 1
                   THEN [hist EXCEPT !.n = 2]
                   ELSE [ev |-> "toggle", card |-> i, n |-> 1, pre |-> page])
  /\ UNCHANGED <<topics, loaded, search, innerText, writes, timers, TOPICS, responses, script>>

\* copyBtn.onclick: copyToClipboard up to the pending writeText promise.
\* The button sits inside the example wrapper, so it can be clicked only
\* while the example is shown.
CopyClick(i) ==
  /\ container[i].kind = "card"
  /\ "copyBtn" \in DOMAIN container[i]
  /\ container[i].display = "block"
  /\ writes' = Append(writes, [btn |-> container[i].copyBtn,
                               text |-> container[i].code])
  /\ hist' = noted([ev |-> "other"])
  /\ UNCHANGED <<topics, loaded, search, container, innerText, timers, TOPICS, responses, script>>

\* the label every revert goes back to, as in the .catch branch
prevAlwaysCopy(text, btn) == "Copy"

\* the label a successful copy goes back to: const prev = btn.innerText
prevLabel(text, btn) == text[btn]

\* .then callback of the k-th pending write
WriteResolved(k) ==
  LET w == writes[k]
  IN  /\ innerText' = [innerText EXCEPT ![w.btn] = "Copied"]
      /\ timers' = Append(timers, [btn |-> w.btn, revert |-> prevLabel(innerText, w.btn),
                                   prior |-> innerText[w.btn], ok |-> TRUE])
      /\ writes' = RemoveAt(writes, k)
      /\ hist' = noted([ev |-> "other"])
      /\ UNCHANGED <<topics, loaded, search, container, TOPICS, responses, script>>

\* a .catch callback that issues the write again
WriteRejectedRetries(k) ==
  LET w == writes[k]
  IN  /\ innerText' = [innerText EXCEPT ![w.btn] = "Copy failed"]
      /\ timers' = Append(timers, [btn |-> w.btn, revert |-> "Copy",
                                   prior |-> innerText[w.btn], ok |-> FALSE])
      /\ writes' = Append(RemoveAt(writes, k), w)
      /\ hist' = noted([ev |-> "other"])
      /\ UNCHANGED <<topics, loaded, search, container, TOPICS, responses, script>>

\* .catch callback of the k-th pending write
WriteRejected(k) ==
  LET w == writes[k]
  IN  /\ innerText' = [innerText EXCEPT ![w.btn] = "Copy failed"]
      /\ timers' = Append(timers, [btn |-> w.btn, revert |-> "Copy",
                                   prior |-> innerText[w.btn], ok |-> FALSE])
      /\ writes' = RemoveAt(writes, k)
      /\ hist' = noted([ev |-> "other"])
      /\ UNCHANGED <<topics, loaded, search, container, TOPICS, responses, script>>

\* the oldest armed setTimeout callback runs
TimerFired ==
  /\ timers # <<>>
  /\ LET tm == Head(timers)
     IN  /\ timers' = Tail(timers)
         /\ innerText' = collect([innerText EXCEPT ![tm.btn] = tm.revert],
                                 container, writes, Tail(timers))
         /\ hist' = noted([ev |-> "other"])
  /\ UNCHANGED <<topics, loaded, search, container, writes, TOPICS, responses, script>>

PageInput == \E f \in PageFilters : Input(f)

ToggleClick == \E i \in 1..Len(container) : Toggle(i)

pending == Len(writes) + Len(timers)

\* in the page specification a copy button is clicked once the copy action
\* before it is over; SpecCopy lets copy actions overlap
CopyBtnClick == pending = 0 /\ \E i \in 1..Len(container) : CopyClick(i)

ClipboardResolves == \E k \in 1..Len(writes) : WriteResolved(k)

ClipboardRejects == \E k \in 1..Len(writes) : WriteRejected(k)

Next ==
  \/ PageInput
  \/ Reset
  \/ ToggleClick
  \/ CopyBtnClick
  \/ ClipboardResolves
  \/ ClipboardRejects
  \/ TimerFired

Spec == Init /\ [][Next]_vars

\* the page with the toggle clicks remembered in hist
InitClicks ==
  /\ topics \in PageCatalogs
  /\ loaded = topics
  /\ search = <<>>
  /\ container = rendered(topics, <<>>, 0)
  /\ innerText = [b \in buttons(container) |-> "Copy"]
  /\ writes = <<>>
  /\ timers = <<>>
  /\ hist = [ev |-> "load"]
  /\ TOPICS = topics
  /\ responses = <<render_template_string(dumps(TOPICS))>>
  /\ script = "running"

SpecClicks == InitClicks /\ [][Next]_vars

\* refresh applied once to every catalog and filter text of the view bounds
ViewInput == hist.ev = "load" /\ \E f \in Filters : Input(f)

NextView == ViewInput

SpecView == InitView /\ [][NextView]_vars

\* one card with a copy button, copy actions overlapping, re-rendered by the
\* reset button
CopyCatalogs == {<<t>> : t \in {p \in PagePool : hasCode(p)}}

InitCopy == Init /\ topics \in CopyCatalogs

OverlappingCopyClick == pending < MaxOverlap /\ \E i \in 1..Len(container) : CopyClick(i)

NextCopy ==
  \/ Reset
  \/ ToggleClick
  \/ OverlappingCopyClick
  \/ ClipboardResolves
  \/ ClipboardRejects
  \/ TimerFired

SpecCopy == InitCopy /\ [][NextCopy]_vars

(***************************************************************************)
(* Serving and loading.  A response is loaded by a browser whose document  *)
(* replaces the one before it; script is "none" before any document,       *)
(* "running" once the script element has run to its end, "failed" when it  *)
(* did not run.                                                            *)
(***************************************************************************)
\* @app.route("/")
index ==
  /\ Len(responses) < MaxRequests
  /\ responses' = Append(responses, render_template_string(dumps(TOPICS)))
  /\ UNCHANGED <<topics, loaded, search, container, innerText, writes, timers, hist,
                 TOPICS, script>>

\* the browser loads the r-th response.  When the script element is cut
\* short its text is a SyntaxError and none of it runs: no topics, no
\* listeners, no initial refresh.
Load(r) ==
  /\ \E payload \in {responses[r].topics_json} :
       IF endsScript(payload)
       THEN /\ script' = "failed"
            /\ topics' = <<>>
            /\ container' = <<>>
       ELSE /\ script' = "running"
            /\ topics' = evaluate(payload)
            /\ container' = rendered(topics', <<>>, 0)
  /\ loaded' = topics'
  /\ search' = <<>>
  /\ innerText' = [b \in buttons(container') |-> "Copy"]
  /\ writes' = <<>>
  /\ timers' = <<>>
  /\ UNCHANGED <<hist, TOPICS, responses>>

PageLoad == \E r \in 1..Len(responses) : Load(r)

InitServe ==
  /\ TOPICS \in ServeCatalogs \cup {ShippedTopics}
  /\ responses = <<>>
  /\ script = "none"
  /\ topics = <<>>
  /\ loaded = <<>>
  /\ search = <<>>
  /\ container = <<>>
  /\ innerText = <<>>
  /\ writes = <<>>
  /\ timers = <<>>
  /\ hist = [ev |-> "off"]

NextServe ==
  \/ index
  \/ PageLoad

SpecServe == InitServe /\ [][NextServe]_vars

(***************************************************************************)
(* Reading the rendered container.                                         *)
(***************************************************************************)
IsCard(c) == c.kind = "card"

IsHeader(c) == c.kind = "header"

cardsOf(children) == SelectSeq(children, IsCard)

\* the view model behind the rendered cards: the topic of each card, in order
cardRefs(children) == [k \in 1..Len(cardsOf(children)) |-> cardsOf(children)[k].t]

headersOf(children) ==
  [k \in 1..Len(SelectSeq(children, IsHeader)) |-> SelectSeq(children, IsHeader)[k].pill]

shownRefs == Range(cardRefs(container))

\* two characters that differ at most in case
SameLetter(c, d) ==
  \/ c = d
  \/ {c, d} = {"a", "A"}
  \/ {c, d} = {"b", "B"}

\* f occurs in s, compared case-insensitively
OccursIn(f, s) ==
  \E i \in 1..(Len(s) + 1) : \E j \in (i - 1)..Len(s) :
     /\ j - i + 1 = Len(f)
     /\ \A k \in 1..Len(f) : SameLetter(SubSeq(s, i, j)[k], f[k])

RECURSIVE Stripped(_)
Stripped(f) ==
  IF f = <<>> THEN f
  ELSE IF Head(f) \in WhiteSpace THEN Stripped(Tail(f))
  ELSE IF f[Len(f)] \in WhiteSpace THEN Stripped(SubSeq(f, 1, Len(f) - 1))
  ELSE f

FieldsOf(t) == {t.title, desc(t), cmd(t), example(t)}

Joined(t) == t.title \o <<" ">> \o desc(t) \o <<" ">> \o cmd(t) \o <<" ">> \o example(t)

ScoreOrZero(t) == IF "score" \in DOMAIN t THEN t.score ELSE 0

\* the view v lists topics by descending score, equal scores in catalog order
ScoreDescendingStable(v) ==
  \A k \in 1..Len(v) : \A l \in (k + 1)..Len(v) :
     \/ ScoreOrZero(topics[v[k]]) > ScoreOrZero(topics[v[l]])
     \/ ScoreOrZero(topics[v[k]]) = ScoreOrZero(topics[v[l]]) /\ v[k] < v[l]

(***************************************************************************)
(* C1 as stated: refresh(f) keeps a topic exactly when f occurs,           *)
(* case-insensitively, inside one of the topic's own title, description,   *)
(* command or example fields.                                              *)
(***************************************************************************)
C1_KeptIffInOneField ==
  \A i \in 1..Len(topics) :
     (i \in shownRefs) <=> (\E fld \in FieldsOf(topics[i]) : OccursIn(search, fld))

(***************************************************************************)
(* C1 amended: refresh(f) keeps a topic exactly when f without its leading *)
(* and trailing whitespace is empty or occurs, case-insensitively, in the  *)
(* topic's title, description, command and example joined by single        *)
(* spaces.                                                                 *)
(***************************************************************************)
C1_KeptIffInJoinedText ==
  \A i \in 1..Len(topics) :
     (i \in shownRefs) <=> OccursIn(Stripped(search), Joined(topics[i]))

\* a filter with an inner space keeps a topic that holds it in no single
\* field and drops another topic
C1_Witness ==
  /\ search = <<"A", " ", "b">>
  /\ \E i \in shownRefs : \A fld \in FieldsOf(topics[i]) : ~OccursIn(search, fld)
  /\ \E i \in 1..Len(topics) : i \notin shownRefs

(***************************************************************************)
(* C2: with an empty or whitespace-only filter the view model holds every  *)
(* topic of the catalog exactly once, by descending score (a missing score *)
(* counting as 0), equal scores in catalog order.                          *)
(***************************************************************************)
IsBlank(f) == \A k \in 1..Len(f) : f[k] \in WhiteSpace

C2_BlankFilterShowsAll ==
  IsBlank(search) =>
     LET v == cardRefs(container)
     IN  /\ Len(v) = Len(topics)
         /\ Range(v) = 1..Len(topics)
         /\ ScoreDescendingStable(v)

\* a whitespace-only filter on a catalog that the sort reorders and that has
\* two topics of equal score
C2_Witness ==
  /\ search = <<" ", " ">>
  /\ Len(topics) = MaxTopics
  /\ cardRefs(container) = <<2, 1, 3>>
  /\ ScoreOrZero(topics[1]) = ScoreOrZero(topics[3])

(***************************************************************************)
(* C3: for every catalog and filter the view model is a rearrangement of a *)
(* subsequence of the catalog (no topic twice, none invented), scores are  *)
(* non-increasing with a missing score counting as 0, and topics of equal  *)
(* score keep their catalog order.                                         *)
(***************************************************************************)
C3_ViewSortedStable ==
  LET v == cardRefs(container)
  IN  /\ \A k \in 1..Len(v) : v[k] \in 1..Len(topics)
      /\ \A k \in 1..Len(v) : \A l \in 1..Len(v) : v[k] = v[l] => k = l
      /\ ScoreDescendingStable(v)

\* a filter that drops a topic and leaves a topic without score behind a
\* scored topic that stood after it in the catalog
C3_Witness ==
  /\ ~IsBlank(search)
  /\ Len(topics) = MaxTopics
  /\ cardRefs(container) = <<3, 1>>
  /\ "score" \notin DOMAIN topics[1]

(***************************************************************************)
(* C4: the headers emitted by buildCards, read top to bottom, are the      *)
(* distinct categories of the view model in order of first occurrence (a   *)
(* topic whose category is missing or empty has none); no category gets a  *)
(* second header, and each header stands immediately before the first card *)
(* of its category.                                                        *)
(***************************************************************************)
categoryOfCard(c) == category(topics[c.t])

RECURSIVE FirstSeen(_)
FirstSeen(cs) ==
  IF cs = <<>> THEN <<>>
  ELSE LET init == FirstSeen(SubSeq(cs, 1, Len(cs) - 1))
           c == cs[Len(cs)]
       IN  IF c = "" \/ c \in Range(init) THEN init ELSE Append(init, c)

C4_HeadersByFirstOccurrence ==
  LET cats == [k \in 1..Len(cardsOf(container)) |-> categoryOfCard(cardsOf(container)[k])]
      hs == headersOf(container)
  IN  /\ hs = FirstSeen(cats)
      /\ \A k \in 1..Len(hs) : \A l \in 1..Len(hs) : hs[k] = hs[l] => k = l
      /\ \A p \in 1..Len(container) :
            IsHeader(container[p]) =>
               /\ p < Len(container)
               /\ IsCard(container[p + 1])
               /\ categoryOfCard(container[p + 1]) = container[p].pill
               /\ \A q \in 1..(p - 1) :
                     IsCard(container[q]) => categoryOfCard(container[q]) # container[p].pill

\* a view model whose first category comes back after another category and
\* that holds a card without category
C4_Witness ==
  /\ search # <<>>
  /\ headersOf(container) = <<"Y", "X">>
  /\ Len(cardsOf(container)) = MaxTopics
  /\ categoryOfCard(container[Len(container)]) = "Y"

(***************************************************************************)
(* C5 as stated: in the rendered output all cards of one category appear   *)
(* together; no card of a different category stands between two cards     *)
(* that share a category.                                                  *)
(***************************************************************************)
C5_CategoriesContiguous ==
  LET cs == cardsOf(container)
  IN  \A k \in 1..Len(cs) : \A m \in (k + 1)..Len(cs) :
         (categoryOfCard(cs[k]) # "" /\ categoryOfCard(cs[k]) = categoryOfCard(cs[m]))
            => \A l \in (k + 1)..(m - 1) : categoryOfCard(cs[l]) = categoryOfCard(cs[k])

(***************************************************************************)
(* C6: after any sequence of input, reset, toggle and copy events the      *)
(* rendered list (headers and cards, in order) is the view of the catalog  *)
(* as loaded under the filter text of the most recent input or reset       *)
(* event, which is the value of the search box.                            *)
(***************************************************************************)
Outline(children) ==
  [k \in 1..Len(children) |->
     IF IsHeader(children[k]) THEN <<"header", children[k].pill>>
     ELSE <<"card", children[k].t>>]

C6_ListIsViewOfLastFilter ==
  Outline(container) = Outline(rendered(loaded, search, 0))

\* a filtered list with an example shown and a copy acknowledged
C6_Witness ==
  /\ search # <<>>
  /\ Len(cardsOf(container)) < Len(topics)
  /\ \E k \in 1..Len(container) : IsCard(container[k]) /\ container[k].display = "block"
  /\ timers # <<>>

(***************************************************************************)
(* C7: the catalog (length, order and every field of every topic) is the   *)
(* catalog as loaded, after any sequence of refreshes, resets, toggles and *)
(* copies.                                                                 *)
(***************************************************************************)
C7_CatalogUnchanged == topics = loaded

\* the sort has put the second topic of the catalog first, and a copy has
\* been acknowledged
C7_Witness ==
  /\ cardRefs(container) = <<2, 1>>
  /\ search # <<>>
  /\ timers # <<>>

(***************************************************************************)
(* C8: two clicks in a row on the toggle of a card whose example is hidden *)
(* leave the page as it was before them: example hidden, label             *)
(* 'Show example', everything else unchanged.                              *)
(***************************************************************************)
C8_ToggleTwiceRestores ==
  (hist.ev = "toggle" /\ hist.n = 2 /\ hist.pre.container[hist.card].display = "none")
     => /\ page = hist.pre
        /\ container[hist.card].display = "none"
        /\ container[hist.card].toggle = "Show example"

\* the second click of such a pair has happened, another card showing its
\* example
C8_Witness ==
  /\ hist.ev = "toggle"
  /\ hist.n = 2
  /\ hist.pre.container[hist.card].display = "none"
  /\ \E k \in 1..Len(container) : IsCard(container[k]) /\ container[k].display = "block"

(***************************************************************************)
(* C9: every card is rendered with its example hidden, and a click on the  *)
(* toggle of one card changes the example visibility and the toggle label  *)
(* of that card only: every other card, the headers, the copy labels and   *)
(* the filter text stay as they are.                                       *)
(***************************************************************************)
AllHidden ==
  \A k \in 1..Len(container) :
     IsCard(container[k]) =>
        container[k].display = "none" /\ container[k].toggle = "Show example"

OnlyCardChanged(i) ==
  /\ Len(container') = Len(container)
  /\ \A j \in 1..Len(container) : j # i => container'[j] = container[j]
  /\ container'[i].display # container[i].display
  /\ container'[i].toggle # container[i].toggle
  /\ [container'[i] EXCEPT !.display = container[i].display,
                           !.toggle = container[i].toggle] = container[i]
  /\ search' = search
  /\ innerText' = innerText
  /\ topics' = topics

C9_HiddenAtRenderToggleLocal ==
  /\ AllHidden
  /\ [][ /\ (PageInput \/ Reset) => AllHidden'
         /\ \A i \in 1..Len(container) : Toggle(i) => OnlyCardChanged(i) ]_vars

\* two cards, one toggled to show its example, the other still hidden
C9_Witness ==
  /\ Len(cardsOf(container)) = 2
  /\ \E k \in 1..Len(container) : IsCard(container[k]) /\ container[k].display = "block"
  /\ \E k \in 1..Len(container) : IsCard(container[k]) /\ container[k].display = "none"

PageKept ==
  /\ container' = container
  /\ search' = search
  /\ topics' = topics

CommandThenExample(t) ==
  (IF "cmd" \in DOMAIN t /\ t.cmd # <<>> THEN t.cmd \o <<"\n">> ELSE <<>>)
     \o (IF "example" \in DOMAIN t THEN t.example ELSE <<>>)

HasCommandOrExample(t) ==
  \/ "cmd" \in DOMAIN t /\ t.cmd # <<>>
  \/ "example" \in DOMAIN t /\ t.example # <<>>

C12_ClipboardTextIsCodeBlock ==
  /\ [](\A i \in 1..Len(container) :
           IsCard(container[i]) =>
              /\ ("copyBtn" \in DOMAIN container[i]) <=> HasCommandOrExample(topics[container[i].t])
              /\ "copyBtn" \in DOMAIN container[i]
                    => container[i].code = CommandThenExample(topics[container[i].t]))
  /\ [][ \A i \in 1..Len(container) :
            CopyClick(i) =>
               /\ Len(writes') = Len(writes) + 1
               /\ writes'[Len(writes')].text = container[i].code
               /\ writes'[Len(writes')].text = CommandThenExample(topics[container[i].t]) ]_vars

\* with text in the search box and two cards in the page, the text of a
\* topic with command and example is on its way to the clipboard
C12_Witness ==
  /\ search # <<>>
  /\ Len(writes) = 1
  /\ writes[1].text = <<"a", "\n", "a", "\n", "b">>
  /\ writes[1].btn \in buttons(container)
  /\ Len(cardsOf(container)) = 2

(***************************************************************************)
(* C13: no two entries of the shipped catalog TOPICS have the same         *)
(* identifier.                                                             *)
(***************************************************************************)
C13_IdsUnique ==
  TOPICS = ShippedTopics =>
     \A i \in 1..Len(TOPICS) : \A j \in 1..Len(TOPICS) :
        TOPICS[i].id = TOPICS[j].id => i = j

\* the shipped catalog of eighty entries, served, loaded and rendered
C13_Witness ==
  /\ TOPICS = ShippedTopics
  /\ Len(TOPICS) = 80
  /\ script = "running"
  /\ Len(cardsOf(container)) = 80

(***************************************************************************)
(* C14: with the catalog init (Basic, 90), plan (Basic, 95), apply         *)
(* (Basic, 85), in this order, refresh with the empty filter renders one   *)
(* 'Basic' header followed by the cards of plan, init and apply, in this   *)
(* order, and no other header.                                             *)
(***************************************************************************)
C14_BasicScenario ==
  (topics = BasicCatalog /\ search = <<>>) =>
     /\ [k \in 1..Len(cardsOf(container)) |-> topics[cardsOf(container)[k].t].id]
           = <<"plan", "init", "apply">>
     /\ headersOf(container) = <<"Basic">>
     /\ IsHeader(container[1])
     /\ IsCard(container[2]) /\ topics[container[2].t].id = "plan"

\* the scenario after an input event with the empty filter
C14_Witness ==
  /\ topics = BasicCatalog
  /\ search = <<>>
  /\ hist.ev = "other"
  /\ Len(container) = 4

(***************************************************************************)
(* C15 as stated: in every view model no topic without a score stands      *)
(* before a topic that has a score, whatever the value of that score.      *)
(***************************************************************************)
HasScore(t) == "score" \in DOMAIN t

C15_UnscoredNeverBeforeScored ==
  LET v == cardRefs(container)
  IN  \A k \in 1..Len(v) : \A l \in (k + 1)..Len(v) :
         ~(~HasScore(topics[v[k]]) /\ HasScore(topics[v[l]]))

(***************************************************************************)
(* C15 amended: in every view model no topic without a score stands before *)
(* a topic whose score is positive.                                        *)
(***************************************************************************)
C15_UnscoredNeverBeforePositive ==
  LET v == cardRefs(container)
  IN  \A k \in 1..Len(v) : \A l \in (k + 1)..Len(v) :
         ~(~HasScore(topics[v[k]]) /\ HasScore(topics[v[l]]) /\ topics[v[l]].score > 0)

\* a topic without score that led the catalog stands behind a topic of
\* positive score and before a topic of negative score
C15_Witness ==
  /\ Len(topics) = 3
  /\ cardRefs(container) = <<3, 1, 2>>
  /\ ~HasScore(topics[1])
  /\ HasScore(topics[2]) /\ topics[2].score < 0
  /\ HasScore(topics[3]) /\ topics[3].score > 0
  /\ hist.ev = "other"

(***************************************************************************)
(* C18 as stated: for every topic and every non-empty filter, the topic is *)
(* kept exactly when the lower-cased filter is a substring of the          *)
(* lower-cased string title+description+command+example.                  *)
(***************************************************************************)
LowerCased(s) ==
  [i \in 1..Len(s) |-> IF s[i] = "A" THEN "a" ELSE IF s[i] = "B" THEN "b" ELSE s[i]]

IsSubstring(f, s) ==
  \E at \in 1..(Len(s) - Len(f) + 1) : SubSeq(s, at, at + Len(f) - 1) = f

Concatenated(t) == t.title \o desc(t) \o cmd(t) \o example(t)

C18_KeptIffInConcatenation ==
  search # <<>> =>
     \A i \in 1..Len(topics) :
        (i \in shownRefs) <=> IsSubstring(LowerCased(search), LowerCased(Concatenated(topics[i])))

(***************************************************************************)
(* C18 amended: for every topic and every non-empty filter, the topic is   *)
(* kept exactly when the filter, lower-cased and without its leading and   *)
(* trailing whitespace, is a substring of the lower-cased string           *)
(* title+' '+description+' '+command+' '+example.                          *)
(***************************************************************************)
C18_KeptIffInSpacedConcatenation ==
  search # <<>> =>
     \A i \in 1..Len(topics) :
        (i \in shownRefs) <=> IsSubstring(LowerCased(Stripped(search)), LowerCased(Joined(topics[i])))

\* a filter with an inner space that matches across the space between two
\* fields of one topic, while a topic that holds the same letters without
\* the space is dropped
C18_Witness ==
  /\ search = <<"b", " ", "A">>
  /\ \E i \in shownRefs : ~IsSubstring(LowerCased(search), LowerCased(Concatenated(topics[i])))
  /\ \E i \in 1..Len(topics) :
        /\ i \notin shownRefs
        /\ IsSubstring(<<"b", "a">>, LowerCased(Concatenated(topics[i])))

(***************************************************************************)
(* C16: every page the index route has answered with carries a payload     *)
(* that decodes, as JSON, to TOPICS itself (every entry, in order, with    *)
(* all its fields); all answers carry the same payload, and no step        *)
(* changes TOPICS.                                                         *)
(***************************************************************************)
JsonChar(c) ==
  IF c = "\\n" THEN "\n" ELSE IF c = "\\\"" THEN "\"" ELSE IF c = "\\\\" THEN "\\" ELSE c

JsonValue(k, j) ==
  IF "num" \in DOMAIN j THEN j.num
  ELSE IF k \in {"id", "category"} THEN j.str[1]
  ELSE [i \in 1..Len(j.str) |-> JsonChar(j.str[i])]

Decoded(payload) ==
  [i \in 1..Len(payload) |-> [k \in DOMAIN payload[i] |-> JsonValue(k, payload[i][k])]]

C16_PayloadIsFullCatalog ==
  /\ [](\A r \in 1..Len(responses) :
           /\ Decoded(responses[r].topics_json) = TOPICS
           /\ responses[r] = responses[1])
  /\ [][TOPICS' = TOPICS]_vars

\* the last request answered, for a catalog of full length that holds quotes,
\* a newline and a backslash
C16_Witness ==
  /\ Len(responses) = MaxRequests
  /\ Len(TOPICS) = MaxServed
  /\ \E i \in 1..Len(TOPICS) : TOPICS[i].id = "init"
  /\ \E i \in 1..Len(TOPICS) : TOPICS[i].id = "plan"

(***************************************************************************)
(* C17 as stated: a page whose catalog payload could not be parsed at load *)
(* shows a load error; it never ends with an empty card panel and no       *)
(* error indication.                                                       *)
(***************************************************************************)
C17_LoadErrorShown ==
  script = "failed" => loadError

(***************************************************************************)
(* C19 as stated: for a copy button, after any sequence of copy clicks     *)
(* with any mix of outcomes, overlapping ones included, once no write is   *)
(* pending and every timer has fired the label of the button is 'Copy'.    *)
(***************************************************************************)
C19_LabelBackToCopy ==
  (writes = <<>> /\ timers = <<>>) =>
     \A b \in buttons(container) : innerText[b] = "Copy"

(***************************************************************************)
(* C20 as stated: in every rendered card list each card with a non-empty   *)
(* category sits under the header of its own category: the nearest header  *)
(* before the card names the category of the card.                         *)
(***************************************************************************)
HeadersBefore(p) == {q \in 1..(p - 1) : IsHeader(container[q])}

C20_CardUnderOwnHeader ==
  \A p \in 1..Len(container) :
     (IsCard(container[p]) /\ categoryOfCard(container[p]) # "") =>
        /\ HeadersBefore(p) # {}
        /\ container[Max(HeadersBefore(p))].pill = categoryOfCard(container[p])

(***************************************************************************)
(* C21: right after a search-input event or a click on reset, every card   *)
(* in the page has its example hidden and its toggle labelled              *)
(* 'Show example', whatever was expanded before, and every copy button in  *)
(* the page shows 'Copy'.                                                  *)
(***************************************************************************)
FreshlyRendered ==
  /\ \A k \in 1..Len(container) :
        IsCard(container[k]) =>
           container[k].display = "none" /\ container[k].toggle = "Show example"
  /\ \A b \in buttons(container) : innerText[b] = "Copy"

C21_RerenderCollapsesAll ==
  [][ (PageInput \/ Reset) => FreshlyRendered' ]_vars

\* a filter event has replaced a page in which an example was open and its
\* copy button said 'Copied': that button, out of the page, still says so
C21_Witness ==
  /\ search # <<>>
  /\ FreshlyRendered
  /\ container # <<>>
  /\ Len(timers) = 1
  /\ timers[1].btn \notin buttons(container)
  /\ innerText[timers[1].btn] = "Copied"

(***************************************************************************)
(* C22: from any page state, whatever the filter text and the expanded     *)
(* cards, a click on the reset button leaves the search box empty and the  *)
(* card list that of the empty filter: every topic of the catalog once, by *)
(* descending score, with the headers of the empty filter's rendering.     *)
(***************************************************************************)
C22_ResetShowsFullCatalog ==
  [][ Reset =>
        /\ search' = <<>>
        /\ Len(cardRefs(container')) = Len(loaded)
        /\ Range(cardRefs(container')) = 1..Len(loaded)
        /\ ScoreDescendingStable(cardRefs(container'))
        /\ Outline(container') = Outline(rendered(loaded, <<>>, 0)) ]_vars

\* reset was clicked on a page that was filtered down to fewer cards, one of
\* them expanded
C22_Witness ==
  /\ hist.ev = "reset"
  /\ hist.search = <<"a">>
  /\ hist.expanded
  /\ search = <<>>
  /\ Len(cardsOf(container)) = 2
  /\ \E i \in 1..Len(topics) : ~OccursIn(<<"a">>, Joined(topics[i]))

(***************************************************************************)
(* C23: refresh ignores leading and trailing whitespace of the filter: for *)
(* every filter string f the view model of refresh(f) is the view model of *)
(* refresh applied to f without its leading and trailing whitespace.       *)
(***************************************************************************)
C23_SurroundingWhitespaceIgnored ==
  cardRefs(container) = filtered(topics, Stripped(search))

\* a filter typed with a blank on either side keeps a topic that does not
\* hold the typed string with its blanks, and drops another topic
C23_Witness ==
  /\ search = <<" ", "b", " ">>
  /\ \E i \in shownRefs : ~OccursIn(search, Joined(topics[i]))
  /\ \E i \in 1..Len(topics) : i \notin shownRefs

(***************************************************************************)
(* C24: in every reachable state and for every rendered card the toggle    *)
(* label agrees with the example visibility: 'Show example' exactly when   *)
(* the example block is hidden, 'Hide example' exactly when it is shown.   *)
(***************************************************************************)
C24_LabelAgreesWithVisibility ==
  \A k \in 1..Len(container) :
     IsCard(container[k]) =>
        /\ container[k].display \in {"none", "block"}
        /\ container[k].toggle \in {"Show example", "Hide example"}
        /\ (container[k].toggle = "Show example") <=> (container[k].display = "none")
        /\ (container[k].toggle = "Hide example") <=> (container[k].display = "block")

\* under a filter, one card labelled 'Hide example' with its example shown
\* next to a card labelled 'Show example', a copy acknowledged
C24_Witness ==
  /\ search # <<>>
  /\ \E k \in 1..Len(container) :
        IsCard(container[k]) /\ container[k].toggle = "Hide example"
  /\ \E k \in 1..Len(container) :
        IsCard(container[k]) /\ container[k].toggle = "Show example"
  /\ \E b \in buttons(container) : innerText[b] = "Copied"

(***************************************************************************)
(* C25 as stated: a card shows the importance score badge exactly when its *)
(* topic has a score field, also when the score is 0.                      *)
(***************************************************************************)
C25_BadgeIffScorePresent ==
  \A k \in 1..Len(container) :
     IsCard(container[k]) =>
        (container[k].badge <=> "score" \in DOMAIN topics[container[k].t])

====
